---- MODULE Spec2Model ----
(***************************************************************************)
(* Model of currency_converter.py: the `convert`, `list` and `history`     *)
(* commands of the CLI, the rate cache file (rates_cache.json) and the     *)
(* history file (conversion_history.json).                                 *)
(*                                                                         *)
(* Spec     : invocations run one after the other; one action per command, *)
(*            each the whole handler.                                      *)
(* ConcSpec : two `convert` processes run at the same time; one action per *)
(*            file-system or network step of the handler.                  *)
(*                                                                         *)
(* Amounts and rates are integers: the code multiplies two floats, and a   *)
(* rate written by json.dump is read back by json.load as the same float   *)
(* (Python writes the shortest repr that round-trips), so the only thing   *)
(* the model needs of a number is its identity and whether it is zero.     *)
(***************************************************************************)
EXTENDS Integers, Sequences, FiniteSets, TLC

VARIABLES cacheFile,   \* rates_cache.json
          histFile,    \* conversion_history.json
          clock,       \* datetime.now(), one tick per invocation / append
          last,        \* Spec: what the last invocation was given and did
          lastOnline,  \* Spec: the last online conversion that returned
          procs        \* ConcSpec: each process's position and locals

vars == <<cacheFile, histFile, clock, last, lastOnline, procs>>

(***************************************************************************)
(* Bounds                                                                  *)
(***************************************************************************)
MaxAmount == 2      \* the largest --amount
MaxRate == 2        \* the largest rate the provider quotes
MaxRuns == 2        \* invocations in a run of Spec

\* The smallest and the largest amount; a zero rate and the largest rate
\* (the code accepts any number the provider sends, zero included).
Amounts == {1, MaxAmount}
Rates == {0, MaxRate}

(***************************************************************************)
(* Currency registry and command-line codes                                *)
(***************************************************************************)
\* Two of the registry's codes; every other string is unsupported.
CURRENCY_CODES == {"USD", "EUR"}

\* What --from / --to are given as.
RawCodes == {"usd", "EUR", "zzz"}

\* str.upper() on the codes above.
Upper(s) ==
    CASE s = "usd" -> "USD"
      [] s = "eur" -> "EUR"
      [] s = "zzz" -> "ZZZ"
      [] OTHER -> s

\* f"{from_currency}_{to_currency}"
PairKey(from, to) == from \o "_" \o to

(***************************************************************************)
(* Python values                                                           *)
(***************************************************************************)
None == -1          \* Python's None: dict.get on a missing key, no return value

EmptyMap == [k \in {} |-> 0]

\* d.get(k)
DictGet(d, k) == IF k \in DOMAIN d THEN d[k] ELSE None

\* d[k] = v
DictPut(d, k, v) == [x \in (DOMAIN d) \cup {k} |-> IF x = k THEN v ELSE d[x]]

(***************************************************************************)
(* Files.  kind is "absent" (no such file), "corrupt" (the file exists and *)
(* json.load raises on it: not JSON, truncated, empty) or "json".          *)
(***************************************************************************)
AbsentCache == [kind |-> "absent", data |-> EmptyMap]
CorruptCache == [kind |-> "corrupt", data |-> EmptyMap]
JsonCache(d) == [kind |-> "json", data |-> d]

AbsentHist == [kind |-> "absent", data |-> <<>>]
CorruptHist == [kind |-> "corrupt", data |-> <<>>]
JsonHist(h) == [kind |-> "json", data |-> h]

(***************************************************************************)
(* The provider's answer to GET API_BASE_URL/<from>                        *)
(*   transport : requests.get raises a RequestException                    *)
(*   status    : status_code != 200                                        *)
(*   notjson   : 200, response.json() raises                               *)
(*   norates   : 200, a JSON object without 'rates'                        *)
(*   table     : 200, 'rates' maps some of the codes to a number           *)
(***************************************************************************)
Tables == UNION {[S -> Rates] : S \in SUBSET CURRENCY_CODES}

Responses ==
    {[kind |-> k, rates |-> EmptyMap] : k \in {"transport", "status", "notjson", "norates"}}
    \cup {[kind |-> "table", rates |-> t] : t \in Tables}

NoResponse == [kind |-> "none", rates |-> EmptyMap]

(***************************************************************************)
(* Rate cache store                                                        *)
(***************************************************************************)
\* load_cached_rates: only FileNotFoundError is caught; json.load's error
\* on a corrupt file propagates to the caller.
load_cached_rates(file) ==
    CASE file.kind = "absent" -> [raised |-> FALSE, rates |-> EmptyMap]
      [] file.kind = "corrupt" -> [raised |-> TRUE, rates |-> EmptyMap]
      [] OTHER -> [raised |-> FALSE, rates |-> file.data]

\* save_cached_rates: the file is rewritten with the whole mapping.
save_cached_rates(rates) == JsonCache(rates)

\* rates[f"{from_currency}_{to_currency}"] = rate
MergeRate_Replace(rates, key, rate) == [x \in {key} |-> rate]
MergeRate(rates, key, rate) == DictPut(rates, key, rate)

\* `not rates`
NoRates_Never(rates) == FALSE
NoRates(rates) == DOMAIN rates = {}

\* `not rate` on the cached value: None and 0 are both falsy.
NoCachedRate(rate) == rate = None \/ rate = 0

\* `rate is None` on the fetched value.
RateMissing_Never(rate) == FALSE
RateMissing(rate) == rate = None

\* amount * rate
Product_RateOnly(amount, rate) == rate
Product(amount, rate) == amount * rate

(***************************************************************************)
(* CurrencyConverter.convert                                               *)
(* The outcome: err names the branch that ended the call ("none": it       *)
(* returned), result the value returned, cache the cache file afterwards,  *)
(* net the number of HTTP requests issued, cacheRead / cacheWrite whether   *)
(* the cache file was opened for reading / writing.                        *)
(***************************************************************************)
ConvOut(err, result, cache, net, rd, wr) ==
    [err |-> err, result |-> result, cache |-> cache, net |-> net,
     cacheRead |-> rd, cacheWrite |-> wr]

convert_offline(amount, from, to, cache) ==
    LET ld == load_cached_rates(cache)
        rate == DictGet(ld.rates, PairKey(from, to))
    IN  IF ld.raised THEN ConvOut("Exception", None, cache, 0, TRUE, FALSE)
        ELSE IF NoRates(ld.rates)
             THEN ConvOut("NoCachedRates", None, cache, 0, TRUE, FALSE)
        ELSE IF NoCachedRate(rate)
             THEN ConvOut("NoCachedRate", None, cache, 0, TRUE, FALSE)
        ELSE ConvOut("none", Product(amount, rate), cache, 0, TRUE, FALSE)

\* The request and the checks of its answer, up to `rate is None`.
fetch_rate(to, resp) ==
    LET rate == DictGet(resp.rates, to)
    IN  IF resp.kind = "transport" THEN [err |-> "RequestException", rate |-> None]
        ELSE IF resp.kind = "status" THEN [err |-> "BadStatus", rate |-> None]
        ELSE IF resp.kind = "notjson" THEN [err |-> "RequestException", rate |-> None]
        ELSE IF resp.kind # "table" THEN [err |-> "InvalidResponse", rate |-> None]
        ELSE IF RateMissing(rate) THEN [err |-> "RateUnavailable", rate |-> None]
        ELSE [err |-> "none", rate |-> rate]

convert_online(amount, from, to, cache, resp) ==
    LET f == fetch_rate(to, resp)
        ld == load_cached_rates(cache)
    IN  IF f.err # "none" THEN ConvOut(f.err, None, cache, 1, FALSE, FALSE)
        ELSE IF ld.raised THEN ConvOut("Exception", None, cache, 1, TRUE, FALSE)
        ELSE ConvOut("none", Product(amount, f.rate),
                     save_cached_rates(MergeRate(ld.rates, PairKey(from, to), f.rate)),
                     1, TRUE, TRUE)

Converter_convert(amount, from, to, offline, cache, resp) ==
    IF offline THEN convert_offline(amount, from, to, cache)
    ELSE convert_online(amount, from, to, cache, resp)

(***************************************************************************)
(* History store                                                           *)
(***************************************************************************)
HistoryRecord(now, amount, from, to, result) ==
    [timestamp |-> now, from_amount |-> amount, from_currency |-> from,
     to_currency |-> to, result |-> result]

\* history.append(record)
HistoryAppend_Front(history, rec) == <<rec>> \o history
HistoryAppend_Replace(history, rec) == <<rec>>
HistoryAppend(history, rec) == Append(history, rec)

\* save_to_history: load (FileNotFoundError gives []), append, rewrite.
save_to_history(file, rec) ==
    CASE file.kind = "corrupt" -> [raised |-> TRUE, hist |-> file, written |-> FALSE]
      [] file.kind = "absent" ->
            [raised |-> FALSE, hist |-> JsonHist(HistoryAppend(<<>>, rec)), written |-> TRUE]
      [] OTHER ->
            [raised |-> FALSE, hist |-> JsonHist(HistoryAppend(file.data, rec)), written |-> TRUE]

(***************************************************************************)
(* The convert command                                                     *)
(***************************************************************************)
\* The two registry checks, --from first.
Unsupported_FromOnly(from, to) == from \notin CURRENCY_CODES
Unsupported(from, to) == from \notin CURRENCY_CODES \/ to \notin CURRENCY_CODES

\* sys.exit(1) on every error path, 0 when the handler runs to its end.
ExitStatus_Zero(err) == 0
ExitStatus(err) == IF err = "none" THEN 0 ELSE 1

CliOut(from, to, err, result, displayed, cache, hist, net, cr, cw, hr, hw) ==
    [from |-> from, to |-> to, err |-> err, exit |-> ExitStatus(err),
     result |-> result, displayed |-> displayed, cache |-> cache, hist |-> hist,
     net |-> net, cacheRead |-> cr, cacheWrite |-> cw, histRead |-> hr, histWrite |-> hw]

cli_convert(amount, rawFrom, rawTo, save, offline, resp, now, cache, hist) ==
    LET from == Upper(rawFrom)
        to == Upper(rawTo)
        c == Converter_convert(amount, from, to, offline, cache, resp)
        h == save_to_history(hist, HistoryRecord(now, amount, from, to, c.result))
    IN  IF Unsupported(from, to)
             THEN CliOut(from, to, "UnsupportedCurrency", None, FALSE, cache, hist,
                         0, FALSE, FALSE, FALSE, FALSE)
        ELSE IF c.err # "none"
             THEN CliOut(from, to, c.err, None, FALSE, c.cache, hist,
                         c.net, c.cacheRead, c.cacheWrite, FALSE, FALSE)
        ELSE IF ~save
             THEN CliOut(from, to, "none", c.result, TRUE, c.cache, hist,
                         c.net, c.cacheRead, c.cacheWrite, FALSE, FALSE)
        ELSE IF h.raised
             THEN CliOut(from, to, "HistoryException", c.result, TRUE, c.cache, hist,
                         c.net, c.cacheRead, c.cacheWrite, TRUE, FALSE)
        ELSE CliOut(from, to, "none", c.result, TRUE, c.cache, h.hist,
                    c.net, c.cacheRead, c.cacheWrite, TRUE, TRUE)

(***************************************************************************)
(* Spec: sequential invocations                                            *)
(***************************************************************************)
NoOnline == [amount |-> 0, from |-> "", to |-> "", rate |-> None, result |-> None]

NoLast ==
    [cmd |-> "none", amount |-> 0, from |-> "", to |-> "", save |-> FALSE,
     offline |-> FALSE, resp |-> NoResponse, now |-> 0,
     preCache |-> AbsentCache, preHist |-> AbsentHist,
     err |-> "none", exit |-> 0, result |-> None, displayed |-> FALSE,
     net |-> 0, cacheRead |-> FALSE, cacheWrite |-> FALSE,
     histRead |-> FALSE, histWrite |-> FALSE]

Procs == {1, 2}

IdleProc ==
    [pc |-> "idle", amount |-> 0, from |-> "", to |-> "", save |-> FALSE,
     offline |-> FALSE, rate |-> None, rates |-> EmptyMap, history |-> <<>>,
     result |-> None, exit |-> None]

Idle == [p \in Procs |-> IdleProc]

\* The files as an invocation can find them before the program ever wrote
\* them: absent, or put there by hand.
Init ==
    /\ cacheFile \in {AbsentCache, CorruptCache, JsonCache(EmptyMap)}
    /\ histFile \in {AbsentHist, CorruptHist}
    /\ clock = 0
    /\ last = NoLast
    /\ lastOnline = NoOnline
    /\ procs = Idle

\* The provider answers only a request that is issued: an invocation that
\* issues none (run here against no response at all) is given none.
Answers(amount, rawFrom, rawTo, save, offline, now, cache, hist) ==
    IF cli_convert(amount, rawFrom, rawTo, save, offline, NoResponse, now, cache, hist).net = 0
    THEN {NoResponse}
    ELSE Responses

Convert ==
    /\ clock < MaxRuns
    /\ \E amount \in Amounts, rawFrom \in RawCodes, rawTo \in RawCodes,
          save \in BOOLEAN, offline \in BOOLEAN :
         \E resp \in Answers(amount, rawFrom, rawTo, save, offline, clock, cacheFile, histFile) :
         \E out \in {cli_convert(amount, rawFrom, rawTo, save, offline, resp,
                                 clock, cacheFile, histFile)} :
             /\ cacheFile' = out.cache
             /\ histFile' = out.hist
             /\ last' = [cmd |-> "convert", amount |-> amount, from |-> out.from,
                         to |-> out.to, save |-> save, offline |-> offline,
                         resp |-> resp, now |-> clock,
                         preCache |-> cacheFile, preHist |-> histFile,
                         err |-> out.err, exit |-> out.exit, result |-> out.result,
                         displayed |-> out.displayed, net |-> out.net,
                         cacheRead |-> out.cacheRead, cacheWrite |-> out.cacheWrite,
                         histRead |-> out.histRead, histWrite |-> out.histWrite]
             /\ lastOnline' =
                    IF ~offline /\ out.displayed
                    THEN [amount |-> amount, from |-> out.from, to |-> out.to,
                          rate |-> DictGet(resp.rates, out.to), result |-> out.result]
                    ELSE lastOnline
    /\ clock' = clock + 1
    /\ UNCHANGED procs

\* list: prints the registry, touches no file.
List ==
    /\ clock < MaxRuns
    /\ last' = [NoLast EXCEPT !.cmd = "list", !.now = clock,
                              !.preCache = cacheFile, !.preHist = histFile]
    /\ clock' = clock + 1
    /\ UNCHANGED <<cacheFile, histFile, lastOnline, procs>>

\* history: show_history reads the history file; a corrupt file raises out
\* of the command.
History ==
    /\ clock < MaxRuns
    /\ last' = [NoLast EXCEPT !.cmd = "history", !.now = clock,
                              !.preCache = cacheFile, !.preHist = histFile,
                              !.histRead = TRUE,
                              !.err = IF histFile.kind = "corrupt"
                                      THEN "HistoryException" ELSE "none",
                              !.exit = IF histFile.kind = "corrupt" THEN 1 ELSE 0]
    /\ clock' = clock + 1
    /\ UNCHANGED <<cacheFile, histFile, lastOnline, procs>>

Next == Convert \/ List \/ History

Spec == Init /\ [][Next]_vars

(***************************************************************************)
(* What the claims speak of, read off the last invocation of Spec          *)
(***************************************************************************)
IsConvert == last.cmd = "convert"

CodesSupported == last.from \in CURRENCY_CODES /\ last.to \in CURRENCY_CODES

LastKey == PairKey(last.from, last.to)

\* The cache store before the invocation, as a mapping: an absent or an
\* unreadable file holds no rate.
PreRates == last.preCache.data

PreCacheEmpty ==
    \/ last.preCache.kind = "absent"
    \/ last.preCache.kind = "json" /\ DOMAIN last.preCache.data = {}

\* The provider returned a table with an entry for the target.
Quoted == last.resp.kind = "table" /\ last.to \in DOMAIN last.resp.rates

IsPrefix(s, t) == Len(s) <= Len(t) /\ \A i \in 1..Len(s) : s[i] = t[i]

LastRecord == HistoryRecord(last.now, last.amount, last.from, last.to, last.result)

\* The failures spec section 7 lists, stated on the inputs and the files
\* the invocation found.
ListedFailure ==
    /\ IsConvert
    /\ \/ ~CodesSupported
       \/ /\ ~last.offline
          /\ \/ last.resp.kind \in {"transport", "status", "norates"}
             \/ last.resp.kind = "table" /\ last.to \notin DOMAIN last.resp.rates
       \/ /\ last.offline
          /\ last.preCache.kind # "corrupt"
          /\ LastKey \notin DOMAIN PreRates

(***************************************************************************)
(* Claims checked under Spec                                               *)
(***************************************************************************)

\* C1: a convert whose upper-cased --from or --to is not in the registry is
\* rejected (error, non-zero exit) with no network request and with neither
\* file read or written, in online and in offline mode.
C1_UnsupportedRejectedFirst ==
    (IsConvert /\ ~CodesSupported) =>
        /\ last.err = "UnsupportedCurrency"
        /\ last.exit # 0
        /\ ~last.displayed
        /\ last.net = 0
        /\ ~last.cacheRead /\ ~last.cacheWrite
        /\ ~last.histRead /\ ~last.histWrite
        /\ cacheFile = last.preCache
        /\ histFile = last.preHist

C1_Witness ==
    /\ IsConvert
    /\ last.from = "USD" /\ last.to = "ZZZ"
    /\ last.offline /\ last.save
    /\ last.preCache.kind = "json" /\ last.preCache.data # EmptyMap
    /\ last.exit = 1

\* C2: offline mode with an empty cache store (file absent, or an empty
\* mapping) fails with NoCachedRates for every supported pair and amount,
\* and issues no network request.
C2_OfflineEmptyCacheFails ==
    (IsConvert /\ CodesSupported /\ last.offline /\ PreCacheEmpty) =>
        /\ last.err = "NoCachedRates"
        /\ last.exit # 0
        /\ ~last.displayed
        /\ last.net = 0

C2_Witness ==
    /\ IsConvert /\ CodesSupported /\ last.offline
    /\ last.preCache = JsonCache(EmptyMap)
    /\ last.amount = MaxAmount
    /\ last.err = "NoCachedRates"

\* C3 (as claimed): an offline convert(x, A, B) that follows a successful
\* online convert(x, A, B) at rate r, with no other write to the A_B entry
\* in between, succeeds with the online result and no network request, for
\* every rate r the provider can return.
C3_OfflineRepeatsOnline ==
    (/\ IsConvert /\ last.offline
     /\ lastOnline.from = last.from /\ lastOnline.to = last.to
     /\ lastOnline.amount = last.amount
     /\ last.preCache.kind = "json"
     /\ DictGet(PreRates, LastKey) = lastOnline.rate) =>
        /\ last.displayed
        /\ last.result = lastOnline.result
        /\ last.net = 0

\* What the code does keep of C3: the same statement for the rates that
\* are not zero.
C3_NonZeroRateRepeats ==
    (/\ IsConvert /\ last.offline
     /\ lastOnline.from = last.from /\ lastOnline.to = last.to
     /\ lastOnline.amount = last.amount
     /\ lastOnline.rate # 0
     /\ last.preCache.kind = "json"
     /\ DictGet(PreRates, LastKey) = lastOnline.rate) =>
        /\ last.displayed
        /\ last.result = lastOnline.result
        /\ last.net = 0

C3_NonZeroWitness ==
    /\ IsConvert /\ last.offline /\ last.displayed
    /\ lastOnline.from = last.from /\ lastOnline.to = last.to
    /\ lastOnline.amount = last.amount /\ last.amount = MaxAmount
    /\ last.from # last.to
    /\ last.result = MaxAmount * MaxRate

\* C4: an online convert that succeeds returns amount * rate, the rate
\* being the target's entry in the table the provider returned in this
\* invocation, not a cached one.
C4_OnlineResultIsAmountTimesRate ==
    (IsConvert /\ ~last.offline /\ last.displayed) =>
        /\ Quoted
        /\ last.result = last.amount * last.resp.rates[last.to]

C4_Witness ==
    /\ IsConvert /\ ~last.offline /\ last.displayed
    /\ last.amount = MaxAmount
    /\ Quoted /\ last.resp.rates[last.to] = MaxRate
    /\ LastKey \in DOMAIN PreRates /\ PreRates[LastKey] # MaxRate
    /\ last.result = MaxAmount * MaxRate

\* C5: convert exits 0 on success and non-zero on every listed failure;
\* no failure is retried or turned into a success.
C5_ExitStatus ==
    /\ ListedFailure => (last.exit # 0 /\ ~last.displayed /\ last.net <= 1)
    /\ (IsConvert /\ last.displayed /\ (last.save => last.histWrite)) => last.exit = 0
    /\ (IsConvert /\ last.exit = 0) => (last.displayed /\ ~ListedFailure)

C5_Witness ==
    /\ ListedFailure /\ CodesSupported /\ ~last.offline
    /\ last.resp.kind = "table" /\ last.resp.rates # EmptyMap
    /\ last.exit = 1

\* C6 (as claimed): the cache load fails open, so an online convert whose
\* fetch succeeded and that finds the cache file absent or corrupt writes
\* the new rate into an otherwise empty cache and returns the result.
\* Stated for the quoted rates that are not zero: the zero rate is C3's.
C6_CacheLoadFailsOpen ==
    (/\ IsConvert /\ CodesSupported /\ ~last.offline /\ Quoted
     /\ DictGet(last.resp.rates, last.to) # 0
     /\ last.preCache.kind \in {"absent", "corrupt"}) =>
        /\ last.displayed
        /\ last.result = last.amount * last.resp.rates[last.to]
        /\ cacheFile = JsonCache([k \in {LastKey} |-> last.resp.rates[last.to]])

\* C7: the history is append-only: the history before an invocation is a
\* prefix of the history after it; a successful convert --save adds
\* exactly one record at the end; every other invocation leaves the
\* history file as it was.
C7_HistoryAppendOnly ==
    last.cmd # "none" =>
        /\ IsPrefix(last.preHist.data, histFile.data)
        /\ IF IsConvert /\ last.save /\ last.exit = 0
           THEN histFile = JsonHist(Append(last.preHist.data, LastRecord))
           ELSE histFile = last.preHist

C7_Witness ==
    /\ IsConvert /\ last.save /\ last.exit = 0
    /\ Len(last.preHist.data) = 1
    /\ Len(histFile.data) = 2
    /\ histFile.data[1] # histFile.data[2]

\* C8: a successful online convert maps the pair's key to the fetched rate
\* (overwriting an earlier value) and leaves every other key, the reverse
\* key included, with the value it had; an offline convert never modifies
\* the cache.
C8_CacheMerge ==
    /\ (IsConvert /\ ~last.offline /\ last.displayed) =>
          /\ Quoted
          /\ cacheFile.kind = "json"
          /\ DOMAIN cacheFile.data = (DOMAIN PreRates) \cup {LastKey}
          /\ cacheFile.data[LastKey] = last.resp.rates[last.to]
          /\ \A k \in (DOMAIN PreRates) \ {LastKey} : cacheFile.data[k] = PreRates[k]
    /\ (IsConvert /\ last.offline) => cacheFile = last.preCache

C8_Witness ==
    /\ IsConvert /\ ~last.offline /\ last.displayed
    /\ last.from # last.to
    /\ PairKey(last.to, last.from) \in DOMAIN PreRates
    /\ LastKey \notin DOMAIN PreRates
    /\ Quoted
    /\ PreRates[PairKey(last.to, last.from)] # last.resp.rates[last.to]
    /\ cacheFile.data[PairKey(last.to, last.from)] = PreRates[PairKey(last.to, last.from)]

\* C10: a convert whose conversion fails leaves both files unchanged: no
\* rate is cached and, even with --save, no record is appended.
C10_FailureWritesNothing ==
    (ListedFailure \/ (IsConvert /\ ~last.displayed)) =>
        /\ cacheFile = last.preCache
        /\ histFile = last.preHist
        /\ ~last.cacheWrite /\ ~last.histWrite

C10_Witness ==
    /\ ListedFailure /\ CodesSupported /\ ~last.offline /\ last.save
    /\ last.resp.kind = "table" /\ last.resp.rates # EmptyMap
    /\ last.preCache.kind = "json" /\ last.preCache.data # EmptyMap
    /\ last.preHist.kind = "json"

(***************************************************************************)
(* ConcSpec: two convert processes at the same time.  Each action is one   *)
(* step of the handler that another process can observe or be affected     *)
(* by: the request, a load of a file, the open(..., 'w') that truncates it *)
(* (an empty file is not JSON), and the json.dump that fills it.           *)
(***************************************************************************)
\* The command lines the two processes are started with.
ConcArgs ==
    {[amount |-> a, from |-> c[1], to |-> c[2], save |-> s, offline |-> o] :
        a \in Amounts,
        c \in {<<"usd", "EUR">>, <<"EUR", "usd">>, <<"usd", "zzz">>},
        s \in BOOLEAN, o \in BOOLEAN}

Exited(q, status) == [q EXCEPT !.pc = "done", !.exit = status]

\* After converter.convert returned: display, then save_to_history or the end.
Returned(q, result) ==
    IF q.save THEN [q EXCEPT !.pc = "load_hist", !.result = result]
    ELSE [q EXCEPT !.pc = "done", !.result = result, !.exit = ExitStatus("none")]

\* upper(), the registry checks, the branch on offline.
CStart(p) ==
    /\ procs[p].pc = "idle"
    /\ \E a \in ConcArgs :
         LET from == Upper(a.from)
             to == Upper(a.to)
             q == [procs[p] EXCEPT !.amount = a.amount, !.from = from, !.to = to,
                                   !.save = a.save, !.offline = a.offline]
         IN  procs' = [procs EXCEPT ![p] =
                 IF Unsupported(from, to) THEN Exited(q, ExitStatus("UnsupportedCurrency"))
                 ELSE IF a.offline THEN [q EXCEPT !.pc = "offline"]
                 ELSE [q EXCEPT !.pc = "request"]]
    /\ UNCHANGED <<cacheFile, histFile, clock, last, lastOnline>>

\* The offline branch: one load of the cache file.
COffline(p) ==
    /\ procs[p].pc = "offline"
    /\ \E c \in {convert_offline(procs[p].amount, procs[p].from, procs[p].to, cacheFile)} :
         procs' = [procs EXCEPT ![p] =
             IF c.err # "none" THEN Exited(procs[p], ExitStatus(c.err))
             ELSE Returned(procs[p], c.result)]
    /\ UNCHANGED <<cacheFile, histFile, clock, last, lastOnline>>

\* requests.get and the checks of the answer.
CRequest(p) ==
    /\ procs[p].pc = "request"
    /\ \E resp \in Responses :
         \E f \in {fetch_rate(procs[p].to, resp)} :
             procs' = [procs EXCEPT ![p] =
                 IF f.err # "none" THEN Exited(procs[p], ExitStatus(f.err))
                 ELSE [procs[p] EXCEPT !.pc = "load_cache", !.rate = f.rate]]
    /\ UNCHANGED <<cacheFile, histFile, clock, last, lastOnline>>

\* rates = self.load_cached_rates(); rates[key] = rate
CLoadCache(p) ==
    /\ procs[p].pc = "load_cache"
    /\ \E ld \in {load_cached_rates(cacheFile)} :
         LET q == procs[p]
         IN  procs' = [procs EXCEPT ![p] =
                 IF ld.raised THEN Exited(q, ExitStatus("Exception"))
                 ELSE [q EXCEPT !.pc = "open_cache",
                                !.rates = MergeRate(ld.rates, PairKey(q.from, q.to), q.rate)]]
    /\ UNCHANGED <<cacheFile, histFile, clock, last, lastOnline>>

\* open(self.rates_cache_file, 'w')
COpenCache(p) ==
    /\ procs[p].pc = "open_cache"
    /\ cacheFile' = CorruptCache
    /\ procs' = [procs EXCEPT ![p].pc = "dump_cache"]
    /\ UNCHANGED <<histFile, clock, last, lastOnline>>

\* json.dump(rates, f); return amount * rate
CDumpCache(p) ==
    /\ procs[p].pc = "dump_cache"
    /\ cacheFile' = save_cached_rates(procs[p].rates)
    /\ procs' = [procs EXCEPT ![p] =
           Returned(procs[p], Product(procs[p].amount, procs[p].rate))]
    /\ UNCHANGED <<histFile, clock, last, lastOnline>>

\* save_to_history: the load and the append.
CLoadHist(p) ==
    /\ procs[p].pc = "load_hist"
    /\ LET q == procs[p]
       IN  procs' = [procs EXCEPT ![p] =
               IF histFile.kind = "corrupt" THEN Exited(q, ExitStatus("HistoryException"))
               ELSE [q EXCEPT !.pc = "open_hist",
                              !.history = HistoryAppend(histFile.data,
                                  HistoryRecord(clock, q.amount, q.from, q.to, q.result))]]
    /\ clock' = clock + 1
    /\ UNCHANGED <<cacheFile, histFile, last, lastOnline>>

\* open(self.history_file, 'w')
COpenHist(p) ==
    /\ procs[p].pc = "open_hist"
    /\ histFile' = CorruptHist
    /\ procs' = [procs EXCEPT ![p].pc = "dump_hist"]
    /\ UNCHANGED <<cacheFile, clock, last, lastOnline>>

\* json.dump(history, f, indent=2), and the handler ends.
CDumpHist(p) ==
    /\ procs[p].pc = "dump_hist"
    /\ histFile' = JsonHist(procs[p].history)
    /\ procs' = [procs EXCEPT ![p] = Exited(procs[p], ExitStatus("none"))]
    /\ UNCHANGED <<cacheFile, clock, last, lastOnline>>

ConcNext ==
    \E p \in Procs :
        \/ CStart(p)
        \/ COffline(p)
        \/ CRequest(p)
        \/ CLoadCache(p)
        \/ COpenCache(p)
        \/ CDumpCache(p)
        \/ CLoadHist(p)
        \/ COpenHist(p)
        \/ CDumpHist(p)

ConcSpec == Init /\ [][ConcNext]_vars

(***************************************************************************)
(* Claim checked under ConcSpec                                            *)
(***************************************************************************)
\* Both processes ran an online convert --save to its end, for two
\* different pairs.
BothSaved ==
    /\ \A p \in Procs :
          /\ procs[p].pc = "done" /\ procs[p].exit = 0
          /\ procs[p].save /\ ~procs[p].offline
    /\ PairKey(procs[1].from, procs[1].to) # PairKey(procs[2].from, procs[2].to)

ProcKey(p) == PairKey(procs[p].from, procs[p].to)

\* The record process p appended to the history it had loaded.
ProcRecord(p) == procs[p].history[Len(procs[p].history)]

\* C9: the load-modify-rewrite of both files is unguarded and the last
\* writer wins: after two simultaneous successful online convert --save
\* runs of different pairs each file is what its last writer dumped, so it
\* holds that writer's entry and may or may not hold the other's (a lost
\* update, the witness); what the history does hold is in time order.
C9_LastWriterWins ==
    BothSaved =>
        /\ cacheFile.kind = "json"
        /\ \E p \in Procs : cacheFile.data = procs[p].rates
        /\ DOMAIN cacheFile.data # {}
        /\ DOMAIN cacheFile.data \subseteq {ProcKey(1), ProcKey(2)}
        /\ \A p \in Procs : ProcKey(p) \in DOMAIN cacheFile.data =>
               cacheFile.data[ProcKey(p)] = procs[p].rate
        /\ histFile.kind = "json"
        /\ \E p \in Procs : histFile.data = procs[p].history
        /\ Len(histFile.data) \in {1, 2}
        /\ \A i \in 1..Len(histFile.data) :
               histFile.data[i] \in {ProcRecord(1), ProcRecord(2)}
        /\ \A i, j \in 1..Len(histFile.data) :
               i < j => histFile.data[i].timestamp < histFile.data[j].timestamp

\* Both updates lost in one run: one of the two new records and one of the
\* two new rates is gone.
C9_Witness ==
    /\ BothSaved
    /\ Len(histFile.data) = 1
    /\ Cardinality(DOMAIN cacheFile.data) = 1
    /\ procs[1].rate # 0 /\ procs[2].rate # 0

====
